---- MODULE Spec2Model ----
(***************************************************************************)
(* Embed Swiper Monitor (embed_slackbot.py): the coordinator thread of     *)
(* main / monitor_swiper_offline_events, the ThreadPoolExecutor workers    *)
(* running send_slack_notification, the signal handler, and the event      *)
(* store the query of fetch_offline_events reads.                          *)
(***************************************************************************)
EXTENDS Integers, Sequences, FiniteSets, Bags, TLC

\* ------------------------------------------------------------------ bounds
NumDevs == 2
MaxTime == 2
MaxEvents == 2
MaxCycles == 2
MaxFaults == 3
PollTicks == 1

\* ------------------------------------------------------- program constants
max_retries == 3
max_workers == 3

Devs == 1..NumDevs
Times == 1..MaxTime
Records == [dev : Devs, ts : Times]

VARIABLES
    pc,                \* position of the coordinator (main) thread
    shutdown_flag,     \* module global shutdown_flag
    metrics,           \* module global metrics (dataclass Metrics)
    metrics_file,      \* content of monitor_metrics.json: <<>> or <<snapshot>>
    last_check,        \* the watermark, local of monitor_swiper_offline_events
    rows,              \* result of fetch_offline_events in the current cycle
    idx,               \* position of the for loop over rows (1-based)
    max_log_datetime,  \* local of the for loop
    store,             \* records visible to the query in the event store
    queue,             \* work queue of the ThreadPoolExecutor
    running,           \* bag of the local states of the busy pool workers
    conns,             \* database connections that are open
    gdc_log,           \* outcomes of the connect attempts of the current/last call
    gdc_ret,           \* "none" (no call yet), "running", "conn" or "None"
    gdc_m0,            \* history: the two connection counters at the call's entry
    cycle,             \* number of loop iterations started
    faults,            \* number of failures the environment has injected
    cyc_wm0,           \* history: watermark at the start of the current cycle
    cyc_sleeps,        \* history: poll_interval sleeps made in the current cycle
    slept,             \* clock ticks the current time.sleep(poll_interval) has lasted
    cyc_persist,       \* history: save_metrics calls of the current cycle and
                       \* of main's finally clause; did the cycle raise
    submitted,         \* history: every pool.submit, <<record, cycle>>
    visible,           \* history: records a completed fetch could see
    sig_at,            \* history: pc at which the first signal was delivered
    sends              \* history: counts of send_slack_notification outcomes

vars == <<pc, shutdown_flag, metrics, metrics_file, last_check, rows, idx,
          max_log_datetime, store, queue, running, conns, gdc_log, gdc_ret,
          gdc_m0, cycle, faults, cyc_wm0, cyc_sleeps, slept, cyc_persist,
          submitted, visible, sig_at, sends>>

\* ----------------------------------------------------------------- helpers
Max(S) == CHOOSE x \in S : \A y \in S : y <= x

RECURSIVE SortByDev(_)
\* ORDER BY swiper_description: the device number stands for the description.
SortByDev(S) ==
    IF S = {} THEN <<>>
    ELSE LET r == CHOOSE x \in S : \A y \in S : x.dev <= y.dev
         IN  <<r>> \o SortByDev(S \ {r})

\* ROW_NUMBER() OVER (PARTITION BY game_id ORDER BY log_datetime DESC) = 1
RankOne(S) == {r \in S : \A q \in S : q.dev = r.dev => q.ts <= r.ts}

\* Mutation: the watermark filter written as log_datetime >= ?.
OfflineQuery_Inclusive(S, bound) == SortByDev({r \in RankOne(S) : r.ts >= bound})

\* The query of fetch_offline_events: rank 1 per device, then the watermark
\* filter log_datetime > ?, ordered by swiper_description.
OfflineQuery(S, bound) == SortByDev({r \in RankOne(S) : r.ts > bound})

format_slack_message(row) ==
    [header |-> "Embed Swiper Offline Alert", game |-> row.dev, log_time |-> row.ts]

Metrics0 ==
    [notifications_sent |-> 0, failed_notifications |-> 0,
     db_connection_attempts |-> 0, db_connection_failures |-> 0,
     last_successful_check |-> 0]

Sends0 == [ok |-> 0, all_failed |-> 0, exhausted |-> 0, inc_sent |-> 0, inc_failed |-> 0]

Persist0 == [saves |-> 0, raised |-> FALSE, exit |-> 0]

SleepPcs == {"skip_sleep", "finally_sleep"}
GdcPcs == {"main_hc", "loop_hc", "loop_conn"}

Init ==
    /\ pc = "config"
    /\ shutdown_flag = FALSE
    /\ metrics = Metrics0
    /\ metrics_file = <<>>
    /\ last_check = 0
    /\ rows = <<>>
    /\ idx = 1
    /\ max_log_datetime = 0
    /\ store = {}
    /\ queue = <<>>
    /\ running = EmptyBag
    /\ conns = {}
    /\ gdc_log = <<>>
    /\ gdc_ret = "none"
    /\ gdc_m0 = [attempts |-> 0, failures |-> 0]
    /\ cycle = 0
    /\ faults = 0
    /\ cyc_wm0 = 0
    /\ cyc_sleeps = 0
    /\ slept = 0
    /\ cyc_persist = Persist0
    /\ submitted = <<>>
    /\ visible = {}
    /\ sig_at = "none"
    /\ sends = Sends0

coordLocals == <<last_check, rows, idx, max_log_datetime>>
poolVars == <<queue, running, sends>>
gdcVars == <<gdc_log, gdc_ret, gdc_m0>>
cycHist == <<cycle, cyc_wm0, cyc_sleeps, slept>>
cycVars == <<cycle, cyc_wm0, cyc_sleeps, slept, cyc_persist>>

\* ------------------------------------------- get_database_connection
\* Line 186: the attempt counter is incremented once, before the retry loop.
GdcEntryMetrics(m) == [m EXCEPT !.db_connection_attempts = @ + 1]

\* Line 193: "attempt < max_retries - 1" chooses retry over giving up.
GdcRetries(attempt) == attempt < max_retries - 1

\* Mutation: the exhausted call does not count its failure.
GdcExhaustedMetrics_Forgets(m) == m

\* Lines 197-199: the last attempt failed.
GdcExhaustedMetrics(m) == [m EXCEPT !.db_connection_failures = @ + 1]

\* Where a caller continues when the call returns a connection / None.
\* health_check returns None (falsy) when conn is None (lines 213, 224).
GdcOnConn(p) ==
    CASE p = "main_hc" -> "main_hc_query"
      [] p = "loop_hc" -> "loop_hc_query"
      [] p = "loop_conn" -> "fetch"

\* Mutation: main ignores the result of the initial health check.
GdcOnNone_EntersLoop(p) ==
    CASE p = "main_hc" -> "monitor_start"
      [] p = "loop_hc" -> "skip_sleep"
      [] p = "loop_conn" -> "skip_sleep"

\* health_check returned a falsy value / the loop's connection is None.
GdcOnNone(p) ==
    CASE p = "main_hc" -> "final_save"
      [] p = "loop_hc" -> "skip_sleep"
      [] p = "loop_conn" -> "skip_sleep"
ConnTag(p) == IF p = "loop_conn" THEN "loop" ELSE "hc"

\* The call of get_database_connection: line 186, then the loop is entered.
DbCounters(m) == [attempts |-> m.db_connection_attempts,
                  failures |-> m.db_connection_failures]

\* m is the value of metrics when the call is made.
EnterGdc(target, m) ==
    /\ pc' = target
    /\ metrics' = GdcEntryMetrics(m)
    /\ gdc_log' = <<>>
    /\ gdc_ret' = "running"
    /\ gdc_m0' = DbCounters(m)

\* pyodbc.connect succeeds: return conn (lines 189-191).
ConnectOk ==
    /\ pc \in GdcPcs
    /\ gdc_log' = Append(gdc_log, "ok")
    /\ gdc_ret' = "conn"
    /\ conns' = conns \cup {ConnTag(pc)}
    /\ pc' = GdcOnConn(pc)
    /\ UNCHANGED <<shutdown_flag, metrics, metrics_file, coordLocals, store,
                   poolVars, gdc_m0, cycVars, faults, submitted, visible, sig_at>>

\* pyodbc.connect raises on an attempt that is not the last: sleep, retry.
ConnectRetry ==
    /\ pc \in GdcPcs
    /\ faults < MaxFaults
    /\ GdcRetries(Len(gdc_log))
    /\ gdc_log' = Append(gdc_log, "fail")
    /\ faults' = faults + 1
    /\ UNCHANGED <<pc, shutdown_flag, metrics, metrics_file, coordLocals, store,
                   poolVars, conns, gdc_ret, gdc_m0, cycVars, submitted,
                   visible, sig_at>>

\* pyodbc.connect raises on the last attempt: count the failure, return None.
ConnectExhausted ==
    /\ pc \in GdcPcs
    /\ faults < MaxFaults
    /\ ~GdcRetries(Len(gdc_log))
    /\ gdc_log' = Append(gdc_log, "fail")
    /\ faults' = faults + 1
    /\ metrics' = GdcExhaustedMetrics(metrics)
    /\ gdc_ret' = "None"
    /\ pc' = GdcOnNone(pc)
    /\ UNCHANGED <<shutdown_flag, metrics_file, coordLocals, store, poolVars,
                   conns, gdc_m0, cycVars, submitted, visible, sig_at>>

\* ------------------------------------------------------- health_check
\* SELECT 1 succeeds: close the connection, stamp the metrics, return True.
\* At startup the monitor is entered; in the loop the cycle goes on to
\* its own get_database_connection (line 421).
HcQueryOk ==
    /\ pc \in {"main_hc_query", "loop_hc_query"}
    /\ conns' = conns \ {"hc"}
    /\ LET stamped == [metrics EXCEPT !.last_successful_check = cycle + 1]
       IN  IF pc = "main_hc_query"
           THEN /\ pc' = "monitor_start"
                /\ metrics' = stamped
                /\ UNCHANGED gdcVars
           ELSE EnterGdc("loop_conn", stamped)
    /\ UNCHANGED <<shutdown_flag, metrics_file, coordLocals, store, poolVars,
                   cycVars, faults, submitted, visible, sig_at>>

\* SELECT 1 raises: the except clause returns False; conn.close() (line 219)
\* is not reached, so the connection stays open.
HcQueryFail ==
    /\ pc \in {"main_hc_query", "loop_hc_query"}
    /\ faults < MaxFaults
    /\ faults' = faults + 1
    /\ pc' = IF pc = "main_hc_query" THEN "final_save" ELSE "skip_sleep"
    /\ UNCHANGED <<shutdown_flag, metrics, metrics_file, coordLocals, store,
                   poolVars, conns, gdcVars, cycVars, submitted, visible, sig_at>>

\* --------------------------------------------------------------- main
\* read_config succeeds (lines 477-479); main calls health_check (line 481).
ReadConfig ==
    /\ pc = "config"
    /\ EnterGdc("main_hc", metrics)
    /\ UNCHANGED <<shutdown_flag, metrics_file, coordLocals, store, poolVars,
                   conns, cycVars, faults, submitted, visible, sig_at>>

\* read_config calls sys.exit(1) (lines 142, 150): SystemExit is no
\* Exception, so only the finally clause of main runs.
ConfigError ==
    /\ pc = "config"
    /\ pc' = "final_save"
    /\ UNCHANGED <<shutdown_flag, metrics, metrics_file, coordLocals, store,
                   poolVars, conns, gdcVars, cycVars, faults, submitted,
                   visible, sig_at>>

\* Lines 467-479 raise (mkdir, logging setup, WebClient): the except clause
\* of main logs and calls sys.exit(1) (lines 492-494); the finally clause runs.
FatalError ==
    /\ pc = "config"
    /\ pc' = "final_save"
    /\ UNCHANGED <<shutdown_flag, metrics, metrics_file, coordLocals, store,
                   poolVars, conns, gdcVars, cycVars, faults, submitted,
                   visible, sig_at>>

\* Lines 410-413: the startup watermark (now minus one minute, time 0 here)
\* and the pool.
MonitorStart ==
    /\ pc = "monitor_start"
    /\ last_check' = 0
    /\ pc' = "loop_head"
    /\ UNCHANGED <<shutdown_flag, metrics, metrics_file, rows, idx,
                   max_log_datetime, store, poolVars, conns, gdcVars, cycVars,
                   faults, submitted, visible, sig_at>>

\* Mutation: "while True" in place of "while not shutdown_flag".
CycleStart_IgnoresFlag ==
    /\ pc = "loop_head"
    /\ cycle < MaxCycles
    /\ cycle' = cycle + 1
    /\ cyc_wm0' = last_check
    /\ cyc_sleeps' = 0
    /\ cyc_persist' = [cyc_persist EXCEPT !.saves = 0, !.raised = FALSE]
    /\ EnterGdc("loop_hc", metrics)
    /\ UNCHANGED <<shutdown_flag, metrics_file, coordLocals, store, poolVars,
                   conns, slept, faults, submitted, visible, sig_at>>

\* Line 414, flag clear: a cycle starts with health_check (line 416).
CycleStart ==
    /\ pc = "loop_head"
    /\ ~shutdown_flag
    /\ cycle < MaxCycles
    /\ cycle' = cycle + 1
    /\ cyc_wm0' = last_check
    /\ cyc_sleeps' = 0
    /\ cyc_persist' = [cyc_persist EXCEPT !.saves = 0, !.raised = FALSE]
    /\ EnterGdc("loop_hc", metrics)
    /\ UNCHANGED <<shutdown_flag, metrics_file, coordLocals, store, poolVars,
                   conns, slept, faults, submitted, visible, sig_at>>

\* Line 414, flag set: the loop ends and the with block of the pool exits.
LoopExit ==
    /\ pc = "loop_head"
    /\ shutdown_flag
    /\ pc' = "pool_exit"
    /\ UNCHANGED <<shutdown_flag, metrics, metrics_file, coordLocals, store,
                   poolVars, conns, gdcVars, cycVars, faults, submitted,
                   visible, sig_at>>

\* ------------------------------------------------ fetch_offline_events
\* Lines 427-428 and 374-376: the query runs and returns its rows.
FetchOk ==
    /\ pc = "fetch"
    /\ rows' = OfflineQuery(store, last_check)
    /\ visible' = visible \cup RankOne(store)
    /\ IF rows' = <<>>
       THEN pc' = "with_exit" /\ UNCHANGED <<idx, max_log_datetime>>
       ELSE pc' = "dispatch" /\ idx' = 1 /\ max_log_datetime' = last_check
    /\ UNCHANGED <<shutdown_flag, metrics, metrics_file, last_check, store,
                   poolVars, conns, gdcVars, cycVars, faults, submitted, sig_at>>

\* Lines 377-379: the query raises; the error is logged and [] returned.
FetchFail ==
    /\ pc = "fetch"
    /\ faults < MaxFaults
    /\ faults' = faults + 1
    /\ rows' = <<>>
    /\ pc' = "with_exit"
    /\ UNCHANGED <<shutdown_flag, metrics, metrics_file, last_check, idx,
                   max_log_datetime, store, poolVars, conns, gdcVars, cycVars,
                   submitted, visible, sig_at>>

\* Mutation: the loop body without its except clause; the exception leaves
\* the while loop and the with block of the pool.
CursorFail_Escapes ==
    /\ pc = "fetch"
    /\ faults < MaxFaults
    /\ faults' = faults + 1
    /\ pc' = "pool_exit"
    /\ cyc_persist' = [cyc_persist EXCEPT !.raised = TRUE]
    /\ UNCHANGED <<shutdown_flag, metrics, metrics_file, coordLocals, store,
                   poolVars, conns, gdcVars, cycHist, submitted, visible, sig_at>>

\* Line 427: conn.cursor() raises; the except clause of the loop logs it
\* (line 448) and the finally clause sleeps. save_metrics is not reached.
CursorFail ==
    /\ pc = "fetch"
    /\ faults < MaxFaults
    /\ faults' = faults + 1
    /\ pc' = "finally_sleep"
    /\ cyc_persist' = [cyc_persist EXCEPT !.raised = TRUE]
    /\ UNCHANGED <<shutdown_flag, metrics, metrics_file, coordLocals, store,
                   poolVars, conns, gdcVars, cycHist, submitted, visible, sig_at>>

\* ------------------------------------------------------ the for loop
\* Mutation: the watermark follows the last row instead of the largest.
NextMax_LastRow(cur, row) == row.ts

\* Lines 441-442.
NextMax(cur, row) == IF row.ts > cur THEN row.ts ELSE cur

\* Mutation: pool.submit placed under "if row.log_datetime > max_log_datetime".
SubmitRow_SkipsOld ==
    /\ pc = "dispatch"
    /\ idx <= Len(rows)
    /\ IF rows[idx].ts > max_log_datetime
       THEN /\ queue' = Append(queue, format_slack_message(rows[idx]))
            /\ submitted' = Append(submitted, <<rows[idx], cycle>>)
       ELSE UNCHANGED <<queue, submitted>>
    /\ max_log_datetime' = NextMax(max_log_datetime, rows[idx])
    /\ idx' = idx + 1
    /\ UNCHANGED <<pc, shutdown_flag, metrics, metrics_file, last_check, rows,
                   store, running, sends, conns, gdcVars, cycVars, faults,
                   visible, sig_at>>

\* Lines 432-442 for one row: format, submit, keep the larger timestamp.
SubmitRow ==
    /\ pc = "dispatch"
    /\ idx <= Len(rows)
    /\ queue' = Append(queue, format_slack_message(rows[idx]))
    /\ submitted' = Append(submitted, <<rows[idx], cycle>>)
    /\ max_log_datetime' = NextMax(max_log_datetime, rows[idx])
    /\ idx' = idx + 1
    /\ UNCHANGED <<pc, shutdown_flag, metrics, metrics_file, last_check, rows,
                   store, running, sends, conns, gdcVars, cycVars, faults,
                   visible, sig_at>>

\* Line 443, after the last row.
AdvanceWatermark ==
    /\ pc = "dispatch"
    /\ idx > Len(rows)
    /\ last_check' = max_log_datetime
    /\ pc' = "with_exit"
    /\ UNCHANGED <<shutdown_flag, metrics, metrics_file, rows, idx,
                   max_log_datetime, store, poolVars, conns, gdcVars, cycVars,
                   faults, submitted, visible, sig_at>>

\* Line 426, leaving "with conn": pyodbc commits and leaves the connection
\* open.
WithExit ==
    /\ pc = "with_exit"
    /\ pc' = "save"
    /\ UNCHANGED <<shutdown_flag, metrics, metrics_file, coordLocals, store,
                   poolVars, conns, gdcVars, cycVars, faults, submitted,
                   visible, sig_at>>

\* The commit of leaving "with conn" raises: except, then finally.
WithExitFail ==
    /\ pc = "with_exit"
    /\ faults < MaxFaults
    /\ faults' = faults + 1
    /\ pc' = "finally_sleep"
    /\ cyc_persist' = [cyc_persist EXCEPT !.raised = TRUE]
    /\ UNCHANGED <<shutdown_flag, metrics, metrics_file, coordLocals, store,
                   poolVars, conns, gdcVars, cycHist, submitted, visible, sig_at>>

\* ------------------------------------------------------- save_metrics
save_metrics(m) == <<m>>

\* Line 445.
SaveMetrics ==
    /\ pc = "save"
    /\ metrics_file' = save_metrics(metrics)
    /\ cyc_persist' = [cyc_persist EXCEPT !.saves = @ + 1]
    /\ pc' = "finally_sleep"
    /\ UNCHANGED <<shutdown_flag, metrics, coordLocals, store, poolVars, conns,
                   gdcVars, cycHist, faults, submitted, visible, sig_at>>

\* ------------------------------------------------------------- sleeps
\* Mutation: the skip path persists the metrics before it sleeps.
SkipSleep_Saves ==
    /\ pc = "skip_sleep"
    /\ slept = PollTicks
    /\ slept' = 0
    /\ cyc_sleeps' = cyc_sleeps + 1
    /\ metrics_file' = save_metrics(metrics)
    /\ cyc_persist' = [cyc_persist EXCEPT !.saves = @ + 1]
    /\ pc' = "finally_sleep"
    /\ UNCHANGED <<shutdown_flag, metrics, coordLocals, store, poolVars, conns,
                   gdcVars, cycle, cyc_wm0, faults, submitted, visible, sig_at>>

\* Lines 418 and 423: time.sleep(poll_interval) returns, then continue,
\* which runs the finally clause of the try statement.
SkipSleep ==
    /\ pc = "skip_sleep"
    /\ slept = PollTicks
    /\ slept' = 0
    /\ cyc_sleeps' = cyc_sleeps + 1
    /\ pc' = "finally_sleep"
    /\ UNCHANGED <<shutdown_flag, metrics, metrics_file, coordLocals, store,
                   poolVars, conns, gdcVars, cycle, cyc_wm0, cyc_persist, faults,
                   submitted, visible, sig_at>>

\* Line 451: time.sleep(poll_interval) of the finally clause returns.
FinallySleep ==
    /\ pc = "finally_sleep"
    /\ slept = PollTicks
    /\ slept' = 0
    /\ cyc_sleeps' = cyc_sleeps + 1
    /\ pc' = "loop_head"
    /\ UNCHANGED <<shutdown_flag, metrics, metrics_file, coordLocals, store,
                   poolVars, conns, gdcVars, cycle, cyc_wm0, cyc_persist, faults,
                   submitted, visible, sig_at>>

\* Time passes inside time.sleep(poll_interval) (lines 418, 423, 451). The
\* handler of a signal returns without raising, so the interpreter resumes
\* the sleep for the time that is left: the tick does not read shutdown_flag.
Tick ==
    /\ pc \in SleepPcs
    /\ slept < PollTicks
    /\ slept' = slept + 1
    /\ UNCHANGED <<pc, shutdown_flag, metrics, metrics_file, coordLocals, store,
                   poolVars, conns, gdcVars, cycle, cyc_wm0, cyc_sleeps,
                   cyc_persist, faults, submitted, visible, sig_at>>

\* ----------------------------------------------------------- shutdown
\* Leaving "with ThreadPoolExecutor" (line 413): shutdown(wait=True) returns
\* when the queue is empty and every worker is idle.
PoolExit ==
    /\ pc = "pool_exit"
    /\ queue = <<>>
    /\ running = EmptyBag
    /\ pc' = "final_save"
    /\ UNCHANGED <<shutdown_flag, metrics, metrics_file, coordLocals, store,
                   poolVars, conns, gdcVars, cycVars, faults, submitted,
                   visible, sig_at>>

\* Lines 495-497: the finally clause of main.
FinalSave ==
    /\ pc = "final_save"
    /\ metrics_file' = save_metrics(metrics)
    /\ cyc_persist' = [cyc_persist EXCEPT !.exit = @ + 1]
    /\ pc' = "done"
    /\ UNCHANGED <<shutdown_flag, metrics, coordLocals, store, poolVars, conns,
                   gdcVars, cycHist, faults, submitted, visible, sig_at>>

\* Mutation: the handler without "global shutdown_flag" sets a local.
signal_handler_NoGlobal ==
    /\ pc # "done"
    /\ sig_at' = IF sig_at # "none" THEN sig_at
                 ELSE IF pc \in SleepPcs THEN "sleep" ELSE "busy"
    /\ UNCHANGED <<pc, shutdown_flag, metrics, metrics_file, coordLocals, store,
                   poolVars, conns, gdcVars, cycVars, faults, submitted, visible>>

\* Lines 383-393: SIGTERM or SIGINT is delivered to the main thread.
signal_handler ==
    /\ pc # "done"
    /\ shutdown_flag' = TRUE
    /\ sig_at' = IF sig_at # "none" THEN sig_at
                 ELSE IF pc \in SleepPcs THEN "sleep" ELSE "busy"
    /\ UNCHANGED <<pc, metrics, metrics_file, coordLocals, store, poolVars,
                   conns, gdcVars, cycVars, faults, submitted, visible>>

\* ---------------------------------------------------- the finalizer
\* A connection object is still reachable: the local conn of health_check
\* while the call is at its query, the local conn of
\* monitor_swiper_offline_events until that function returns.
Referenced(tag) ==
    IF tag = "hc" THEN pc \in {"main_hc_query", "loop_hc_query"}
    ELSE pc \notin {"final_save", "done"}

\* The code closes a connection at line 219 only. A connection that is no
\* longer reachable is closed when the runtime finalizes the object: at
\* once, later, or not before the process ends.
Finalize ==
    /\ pc # "done"
    /\ \E tag \in conns : ~Referenced(tag) /\ conns' = conns \ {tag}
    /\ UNCHANGED <<pc, shutdown_flag, metrics, metrics_file, coordLocals, store,
                   poolVars, gdcVars, cycVars, faults, submitted, visible,
                   sig_at>>

\* -------------------------------------------------------- event store
\* A record becomes visible to the query (its game_log, game_events and
\* users rows are committed).
\* The store is read by the query alone, so an insertion is taken where
\* it is first observable: while the coordinator is about to run the query.
AddEvent ==
    /\ pc = "fetch"
    /\ Cardinality(store) < MaxEvents
    /\ \E r \in Records \ store : store' = store \cup {r}
    /\ UNCHANGED <<pc, shutdown_flag, metrics, metrics_file, coordLocals,
                   poolVars, conns, gdcVars, cycVars, faults, submitted,
                   visible, sig_at>>

\* ------------------------------------- send_slack_notification workers
WorkerState(p, a, t) == [pc |-> p, attempt |-> a, tmp |-> t]
One(w) == SetToBag({w})

\* Line 316: "attempt < max_retries - 1" chooses retry over giving up.
SendRetries(attempt) == attempt < max_retries - 1

\* An idle worker (at most max_workers threads) takes the oldest work item
\* and enters send_slack_notification.
WorkerTake ==
    /\ queue # <<>>
    /\ BagCardinality(running) < max_workers
    /\ queue' = Tail(queue)
    /\ running' = running (+) One(WorkerState("call", 0, 0))
    /\ UNCHANGED <<pc, shutdown_flag, metrics, metrics_file, coordLocals, store,
                   sends, conns, gdcVars, cycVars, faults, submitted, visible,
                   sig_at>>

\* Lines 307-312: chat_postMessage returns; "notifications_sent += 1" reads
\* the counter.
SendOk ==
    \E w \in BagToSet(running) :
        /\ w.pc = "call"
        /\ running' = (running (-) One(w))
                        (+) One(WorkerState("store_sent", 0,
                                            metrics.notifications_sent))
        /\ sends' = [sends EXCEPT !.ok = @ + 1]
        /\ UNCHANGED <<pc, shutdown_flag, metrics, metrics_file, coordLocals,
                       store, queue, conns, gdcVars, cycVars, faults,
                       submitted, visible, sig_at>>

\* Lines 312-313: "notifications_sent += 1" writes the counter; return True.
StoreSent ==
    \E w \in BagToSet(running) :
        /\ w.pc = "store_sent"
        /\ metrics' = [metrics EXCEPT !.notifications_sent = w.tmp + 1]
        /\ running' = running (-) One(w)
        /\ sends' = [sends EXCEPT !.inc_sent = @ + 1]
        /\ UNCHANGED <<pc, shutdown_flag, metrics_file, coordLocals, store,
                       queue, conns, gdcVars, cycVars, faults, submitted,
                       visible, sig_at>>

\* Lines 314-318: SlackApiError on an attempt that is not the last.
SendApiErrorRetry ==
    \E w \in BagToSet(running) :
        /\ w.pc = "call"
        /\ faults < MaxFaults
        /\ SendRetries(w.attempt)
        /\ faults' = faults + 1
        /\ running' = (running (-) One(w))
                        (+) One(WorkerState("call", w.attempt + 1, 0))
        /\ UNCHANGED <<pc, shutdown_flag, metrics, metrics_file, coordLocals,
                       store, queue, sends, conns, gdcVars, cycVars, submitted,
                       visible, sig_at>>

\* Lines 319-321: SlackApiError on the last attempt; "failed_notifications
\* += 1" reads the counter.
SendApiErrorLast ==
    \E w \in BagToSet(running) :
        /\ w.pc = "call"
        /\ faults < MaxFaults
        /\ ~SendRetries(w.attempt)
        /\ faults' = faults + 1
        /\ running' = (running (-) One(w))
                        (+) One(WorkerState("store_failed", 0,
                                            metrics.failed_notifications))
        /\ sends' = [sends EXCEPT !.all_failed = @ + 1, !.exhausted = @ + 1]
        /\ UNCHANGED <<pc, shutdown_flag, metrics, metrics_file, coordLocals,
                       store, queue, conns, gdcVars, cycVars, submitted,
                       visible, sig_at>>

\* Mutation: an exhausted send rewinds the watermark of its cycle.
StoreFailed_Reverts ==
    \E w \in BagToSet(running) :
        /\ w.pc = "store_failed"
        /\ metrics' = [metrics EXCEPT !.failed_notifications = w.tmp + 1]
        /\ running' = running (-) One(w)
        /\ sends' = [sends EXCEPT !.inc_failed = @ + 1]
        /\ last_check' = cyc_wm0
        /\ UNCHANGED <<pc, shutdown_flag, metrics_file, rows, idx,
                       max_log_datetime, store, queue, conns, gdcVars, cycVars,
                       faults, submitted, visible, sig_at>>

\* Lines 321-322: "failed_notifications += 1" writes the counter; return
\* False.
StoreFailed ==
    \E w \in BagToSet(running) :
        /\ w.pc = "store_failed"
        /\ metrics' = [metrics EXCEPT !.failed_notifications = w.tmp + 1]
        /\ running' = running (-) One(w)
        /\ sends' = [sends EXCEPT !.inc_failed = @ + 1]
        /\ UNCHANGED <<pc, shutdown_flag, metrics_file, coordLocals, store,
                       queue, conns, gdcVars, cycVars, faults, submitted,
                       visible, sig_at>>

\* Line 314 catches SlackApiError only: any other exception of
\* chat_postMessage (a network error, a timeout) leaves the function at
\* once; the pool keeps it in the unread future and the worker goes idle.
SendOtherError ==
    \E w \in BagToSet(running) :
        /\ w.pc = "call"
        /\ faults < MaxFaults
        /\ faults' = faults + 1
        /\ running' = running (-) One(w)
        /\ sends' = [sends EXCEPT !.all_failed = @ + 1]
        /\ UNCHANGED <<pc, shutdown_flag, metrics, metrics_file, coordLocals,
                       store, queue, conns, gdcVars, cycVars, submitted,
                       visible, sig_at>>

\* ------------------------------------------------------ specification
Next ==
    \/ ReadConfig \/ ConfigError \/ FatalError
    \/ ConnectOk \/ ConnectRetry \/ ConnectExhausted
    \/ HcQueryOk \/ HcQueryFail
    \/ MonitorStart \/ CycleStart \/ LoopExit
    \/ FetchOk \/ FetchFail \/ CursorFail
    \/ SubmitRow \/ AdvanceWatermark
    \/ WithExit \/ WithExitFail \/ SaveMetrics
    \/ SkipSleep \/ FinallySleep \/ Tick
    \/ PoolExit \/ FinalSave
    \/ signal_handler
    \/ Finalize
    \/ AddEvent
    \/ WorkerTake \/ SendOk \/ StoreSent
    \/ SendApiErrorRetry \/ SendApiErrorLast \/ StoreFailed \/ SendOtherError

Spec == Init /\ [][Next]_vars

\* The steps of the main thread: every external call it makes (connect,
\* query, save, sleep) returns, with either outcome.
CoordStep ==
    \/ ReadConfig \/ ConfigError \/ FatalError
    \/ ConnectOk \/ ConnectRetry \/ ConnectExhausted
    \/ HcQueryOk \/ HcQueryFail
    \/ MonitorStart \/ CycleStart \/ LoopExit
    \/ FetchOk \/ FetchFail \/ CursorFail
    \/ SubmitRow \/ AdvanceWatermark
    \/ WithExit \/ WithExitFail \/ SaveMetrics
    \/ SkipSleep \/ FinallySleep \/ Tick
    \/ PoolExit \/ FinalSave

\* The steps of the pool's worker threads: every chat_postMessage returns
\* or raises.
WorkerStep ==
    \/ WorkerTake \/ SendOk \/ StoreSent
    \/ SendApiErrorRetry \/ SendApiErrorLast \/ StoreFailed \/ SendOtherError

\* The threads are scheduled and their calls return: the main thread and
\* the workers each keep taking steps while they have one to take. Signals,
\* new events and the finalizer are under no obligation.
FairSpec == Spec /\ WF_vars(CoordStep) /\ WF_vars(WorkerStep)

\* ------------------------------------------------------------- claims
MaxTs(rs) == Max({rs[i].ts : i \in DOMAIN rs})
Drained == queue = <<>> /\ running = EmptyBag
TimesSubmitted(r) == Cardinality({i \in DOMAIN submitted : submitted[i][1] = r})
RECURSIVE CycleSubs(_, _)
\* The records submitted in cycle c, in submission order.
CycleSubs(subs, c) ==
    IF subs = <<>> THEN <<>>
    ELSE IF Head(subs)[2] = c THEN <<Head(subs)[1]>> \o CycleSubs(Tail(subs), c)
    ELSE CycleSubs(Tail(subs), c)

\* C1: the watermark never decreases; the step that ends the for loop of a
\* poll sets it to the largest timestamp of that poll's rows, and no other
\* step changes it, so the next poll's lower bound is that value, or the old
\* one when the poll returned no rows.
C1_Watermark ==
    [][/\ last_check' >= last_check
       /\ (pc = "dispatch" /\ pc' = "with_exit") => last_check' = MaxTs(rows)
       /\ ~(pc = "dispatch" /\ pc' = "with_exit") => last_check' = last_check]_vars

\* C1 witness: the second poll is about to query with the bound the first
\* poll left, the largest timestamp of a batch whose last row is not the newest.
C1_Witness ==
    /\ pc = "fetch" /\ cycle = 2
    /\ Len(rows) = 2 /\ rows[2].ts < rows[1].ts
    /\ last_check = rows[1].ts

\* C2: when a cycle has gone past its dispatch, every record a completed
\* fetch could see (rank 1 of its device, newer than the startup watermark)
\* has been submitted exactly once. Stated for the runs in which no call has
\* failed, where neither a failed fetch nor an exception can excuse a miss.
C2_ExactlyOnce ==
    (pc = "save" /\ faults = 0) => \A r \in visible : TimesSubmitted(r) = 1

\* C3: no step of a dispatch worker touches the watermark or the position of
\* the coordinator, and past the for loop the watermark is the one the batch
\* determines, whatever the sends have done.
C3_DispatchIndependent ==
    /\ [][(running' # running \/ sends' # sends)
            => UNCHANGED <<last_check, max_log_datetime, rows, idx, pc>>]_vars
    /\ [](pc \in {"with_exit", "save"} =>
            last_check = IF rows = <<>> THEN cyc_wm0 ELSE Max({cyc_wm0, MaxTs(rows)}))

\* C3 witness: the cycle advanced the watermark although a send it
\* submitted has already exhausted its retries.
C3_Witness ==
    /\ pc = "save" /\ rows # <<>> /\ last_check > cyc_wm0
    /\ sends.exhausted >= 1 /\ metrics.failed_notifications >= 1

\* C4: once every call of send_slack_notification has returned, each call
\* whose attempts all failed has incremented failed_notifications once and
\* each call with a successful attempt has incremented notifications_sent once.
C4_SendAccounting ==
    Drained => /\ sends.inc_failed = sends.all_failed
               /\ sends.inc_sent = sends.ok

\* C5: once the pool has drained, notifications_sent is the number of sends
\* that succeeded and failed_notifications the number that exhausted their
\* retries.
C5_NoLostUpdate ==
    Drained => /\ metrics.notifications_sent = sends.ok
               /\ metrics.failed_notifications = sends.exhausted

\* C6: a cycle whose health check failed has slept poll_interval exactly once
\* when the loop is back at its head.
C6_SkipSleepsOnce ==
    (pc = "loop_head" /\ cycle >= 1 /\ metrics.last_successful_check # cycle + 1)
        => cyc_sleeps = 1

\* C7: after a signal delivered during a sleep the coordinator only finishes
\* sleeping, leaves the loop, drains the pool and saves; it ends with the
\* metrics file holding the final metrics.
C7_ShutdownInSleep ==
    sig_at = "sleep" =>
        /\ pc \in SleepPcs \cup {"loop_head", "pool_exit", "final_save", "done"}
        /\ pc = "done" => metrics_file = save_metrics(metrics)

\* C7 witness: the process has ended after a signal that arrived in a sleep
\* of a cycle that dispatched.
C7_Witness ==
    sig_at = "sleep" /\ pc = "done" /\ cycle >= 1 /\ submitted # <<>>

\* C8: during and after the for loop the submissions of the cycle are the
\* rows of the fetch, in order; after it the watermark is their largest
\* timestamp.
C8_BatchDispatch ==
    /\ pc = "dispatch" => CycleSubs(submitted, cycle) = SubSeq(rows, 1, idx - 1)
    /\ (pc \in {"with_exit", "save"} /\ rows # <<>>) =>
          /\ CycleSubs(submitted, cycle) = rows
          /\ \A i \in DOMAIN rows : rows[i].ts <= last_check
          /\ \E i \in DOMAIN rows : rows[i].ts = last_check
    /\ (pc \in {"with_exit", "save"} /\ rows = <<>>) =>
          CycleSubs(submitted, cycle) = <<>>

\* C8 witness: a cycle has dispatched a batch of two rows whose newest row
\* came first.
C8_Witness ==
    /\ pc = "save" /\ Len(rows) = 2 /\ rows[1].ts > rows[2].ts
    /\ Len(CycleSubs(submitted, cycle)) = 2

\* C9: a call makes at most max_retries attempts, none after a success; it
\* returns the connection exactly on a success, leaving
\* db_connection_failures as it was, and returns None after max_retries
\* failures, with db_connection_failures one higher.
C9_BoundedConnect ==
    /\ Len(gdc_log) <= max_retries
    /\ \A i \in 1..(Len(gdc_log) - 1) : gdc_log[i] = "fail"
    /\ gdc_ret = "running" =>
          /\ \A i \in DOMAIN gdc_log : gdc_log[i] = "fail"
          /\ metrics.db_connection_failures = gdc_m0.failures
    /\ gdc_ret = "conn" =>
          /\ gdc_log # <<>> /\ gdc_log[Len(gdc_log)] = "ok"
          /\ metrics.db_connection_failures = gdc_m0.failures
    /\ gdc_ret = "None" =>
          /\ Len(gdc_log) = max_retries
          /\ \A i \in DOMAIN gdc_log : gdc_log[i] = "fail"
          /\ metrics.db_connection_failures = gdc_m0.failures + 1

\* C9 witness: a call in the loop has returned None after max_retries
\* failed attempts.
C9_Witness ==
    /\ gdc_ret = "None" /\ Len(gdc_log) = max_retries /\ pc = "skip_sleep"
    /\ metrics.db_connection_failures = 1

\* C10: when a call has returned after k attempts, db_connection_attempts is
\* k higher than at its entry.
C10_AttemptsCounted ==
    gdc_ret \in {"conn", "None"} =>
        metrics.db_connection_attempts = gdc_m0.attempts + Len(gdc_log)

\* The initial health check of main (line 481) has been made and no health
\* check has succeeded yet.
StartupCheckFailed ==
    /\ gdc_ret # "none"
    /\ metrics.last_successful_check = 0
    /\ pc \notin {"main_hc", "main_hc_query"}

\* C11: when the initial health check has failed the coordinator is on the
\* exit path of main: no loop iteration has started, no query has run, and
\* nothing has been submitted to or taken by the pool.
C11_NoLoopAfterFailedStartup ==
    StartupCheckFailed =>
        /\ pc \in {"final_save", "done"}
        /\ cycle = 0 /\ rows = <<>> /\ visible = {}
        /\ submitted = <<>> /\ Drained /\ sends = Sends0

\* C11 witness: the process has ended after an initial health check that
\* failed, either by exhausted connects or by a failed SELECT 1.
C11_Witness ==
    /\ StartupCheckFailed /\ pc = "done"
    /\ faults >= 1 /\ gdc_ret \in {"None", "conn"}

\* The cycle that has just ended passed its health check and got the
\* connection of line 421.
CycleConnected ==
    metrics.last_successful_check = cycle + 1 /\ gdc_ret = "conn"

\* The process has persisted its metrics once at exit, and only at exit.
ExitPersist ==
    /\ pc = "done" => (cyc_persist.exit = 1 /\ metrics_file = save_metrics(metrics))
    /\ pc # "done" => cyc_persist.exit = 0

\* C12 as stated: a cycle that passed the health check and obtained its
\* connection has persisted the metrics exactly once when the loop is back at
\* its head, a skipped cycle not at all, and main persists once at exit.
C12_PersistPerCycle ==
    /\ (pc = "loop_head" /\ cycle >= 1) =>
          cyc_persist.saves = IF CycleConnected THEN 1 ELSE 0
    /\ ExitPersist

\* C12 amended: the cycle persists exactly once when it passed the health
\* check, obtained its connection and raised no exception before line 445;
\* a skipped cycle and a cycle ended by an exception do not persist; main
\* persists once at exit on every path.
C12_PersistPerCompletedCycle ==
    /\ (pc = "loop_head" /\ cycle >= 1) =>
          cyc_persist.saves =
              IF CycleConnected /\ ~cyc_persist.raised THEN 1 ELSE 0
    /\ cyc_persist.raised => CycleConnected
    /\ ExitPersist

\* C12 witness: the process has ended after a first cycle that persisted
\* and a second one that an exception ended before save_metrics.
C12_Witness ==
    /\ pc = "done" /\ cycle = 2 /\ CycleConnected
    /\ cyc_persist = [saves |-> 0, raised |-> TRUE, exit |-> 1]
    /\ metrics.last_successful_check = 3

\* C13: when main is past the pool (at its final persist or ended), nothing
\* submitted is still queued or running, and every submitted notification
\* has ended in a success or in the exhaustion of its retries.
C13_DrainBeforeExit ==
    pc \in {"final_save", "done"} =>
        /\ Drained
        /\ Len(submitted) = sends.ok + sends.exhausted

\* Every record the query can select has been seen by a fetch that returned:
\* the store holds no data newer than the last successful fetch.
NoNewData == RankOne(store) \subseteq visible

\* C14 as stated: after a cycle that ran to its save_metrics, the fetch
\* re-run with the loop's watermark on the store as it is returns nothing.
C14_RefetchEmpty ==
    (pc = "loop_head" /\ cycle >= 1 /\ cyc_persist.saves = 1) =>
        OfflineQuery(store, last_check) = <<>>

\* C14 amended: outside the for loop, when the store holds no data newer than
\* the last fetch that succeeded, the query with the loop's watermark is
\* empty; a cycle whose fetch runs in that situation does not enter the for
\* loop, submits nothing and leaves the watermark as it was.
C14_RefetchEmptyAfterFetch ==
    /\ []((pc # "dispatch" /\ NoNewData) => OfflineQuery(store, last_check) = <<>>)
    /\ [][(pc = "fetch" /\ pc' # "fetch" /\ NoNewData) =>
             /\ pc' # "dispatch"
             /\ last_check' = last_check
             /\ submitted' = submitted]_vars

\* C14 witness: the second cycle fetched nothing because the first one had
\* dispatched everything in the store and advanced the watermark past it.
C14_Witness ==
    /\ cycle = 2 /\ pc = "save" /\ rows = <<>> /\ faults = 0
    /\ store # {} /\ NoNewData
    /\ last_check = cyc_wm0 /\ last_check >= 1
    /\ Len(submitted) >= 1 /\ CycleSubs(submitted, 2) = <<>>

\* C15: once the pool has drained, every submitted notification has executed
\* exactly one of the two counter increments, and no call has ended in any
\* other way than a success or the exhaustion of its retries.
C15_EverySendCounted ==
    Drained =>
        /\ sends.inc_sent + sends.inc_failed = Len(submitted)
        /\ sends.all_failed = sends.exhausted

\* C16: outside the round-trip query of health_check, no connection opened
\* by health_check is open.
C16_HealthCheckCloses ==
    pc \notin {"main_hc_query", "loop_hc_query"} => "hc" \notin conns

\* C17: when a cycle that obtained its connection is in a sleep of the loop,
\* the connection of the loop is closed.
C17_CycleClosesConn ==
    (pc \in SleepPcs /\ CycleConnected) => "loop" \notin conns

\* The positions of the coordinator inside the while loop (lines 414-454).
LoopPcs ==
    {"loop_head", "loop_hc", "loop_hc_query", "loop_conn", "fetch", "dispatch",
     "with_exit", "save", "skip_sleep", "finally_sleep"}

\* C18: the coordinator leaves the while loop only from its head with the
\* shutdown flag set; a failed call inside a cycle leads to a sleep (a failed
\* query first to the end of the with block), a sleep leads on to the head of
\* the loop, and at the head with the flag clear the next cycle can start.
C18_LoopSurvivesFailures ==
    /\ [][/\ (pc \in LoopPcs /\ pc' \notin LoopPcs) =>
               (pc = "loop_head" /\ shutdown_flag /\ pc' = "pool_exit")
          /\ (pc \in LoopPcs /\ faults' > faults /\ pc' # pc) =>
               pc' \in SleepPcs \cup {"with_exit"}
          /\ (pc \in SleepPcs /\ pc' # pc) =>
               pc' \in {"finally_sleep", "loop_head"}]_vars
    /\ []((pc = "loop_head" /\ ~shutdown_flag /\ cycle < MaxCycles) =>
            ENABLED CycleStart)

\* C18 witness: a second cycle is running after a first one in which every
\* connect attempt failed.
C18_Witness ==
    /\ pc = "loop_hc" /\ cycle = 2 /\ ~shutdown_flag
    /\ metrics.db_connection_failures = 1 /\ faults >= max_retries

\* C19: once the shutdown flag is set, a sleep of the loop spends no further
\* time sleeping: no clock tick of the poll interval passes in it.
C19_SleepCutShort ==
    [][(pc \in SleepPcs /\ shutdown_flag) => slept' <= slept]_vars

\* C20: the shutdown flag, once set, stays set; no loop iteration starts
\* while it is set; and from any state in which it is set the process
\* reaches its end with the pool drained and the metrics file holding the
\* final metrics.
C20_ShutdownTerminates ==
    /\ [][shutdown_flag => shutdown_flag']_vars
    /\ [][shutdown_flag => cycle' = cycle]_vars
    /\ shutdown_flag ~>
          (pc = "done" /\ Drained /\ metrics_file = save_metrics(metrics))

\* C20 witness: the process has ended after a signal that found the
\* coordinator at work in the loop with notifications submitted.
C20_Witness ==
    /\ shutdown_flag /\ sig_at = "busy" /\ pc = "done"
    /\ cycle = 1 /\ Len(submitted) >= 1 /\ Drained
    /\ metrics_file = save_metrics(metrics)

====
